---- MODULE Spec2Model ----
(***************************************************************************)
(* Model of MetadataProcessor (src/元数据编辑工具V2.py): loading the        *)
(* boundary and target sheets, deriving per-tile fields (identifier        *)
(* sub-fields, TIFF size, corner coordinates, 8-direction adjacency),      *)
(* validating the record set and writing one output file per tile.         *)
(*                                                                         *)
(* A Python str is modelled as a tuple of one-character strings, so that   *)
(* slicing, int() and f-string formatting are computed character by        *)
(* character.  A Python dict with str keys is a function on strings.       *)
(* The Chinese string literals of the source are written as one-token      *)
(* tuples of ASCII text (the program never slices them); the comment at    *)
(* each gives the literal.                                                 *)
(***************************************************************************)
EXTENDS Integers, Sequences, FiniteSets, TLC

(***************************************************************************)
(* Bounds of the model.                                                    *)
(***************************************************************************)
\* largest number of data rows of a target sheet
MaxTiles == 2
\* largest number of data rows of a boundary sheet
MaxBoundary == 2

(***************************************************************************)
(* Python str and int primitives.                                          *)
(***************************************************************************)
Digits == <<"0", "1", "2", "3", "4", "5", "6", "7", "8", "9">>

DigitChars == {Digits[i] : i \in 1..10}

\* the characters str.strip() and int() treat as white space
Whitespace == {" ", "\t", "\n", "\r"}

Min(a, b) == IF a < b THEN a ELSE b

\* s[a:b] for 0 <= a <= b: the slice is cut at the end of the string
Slice(s, a, b) == SubSeq(s, Min(a, Len(s)) + 1, Min(b, Len(s)))

RECURSIVE LStrip(_)
LStrip(s) ==
    IF s # <<>> /\ Head(s) \in Whitespace THEN LStrip(Tail(s)) ELSE s

RECURSIVE RStrip(_)
RStrip(s) ==
    IF s # <<>> /\ s[Len(s)] \in Whitespace
    THEN RStrip(SubSeq(s, 1, Len(s) - 1))
    ELSE s

\* str.strip()
Strip(s) == RStrip(LStrip(s))

DigitValue(ch) == CHOOSE d \in 0..9 : Digits[d + 1] = ch

\* the text of an int() argument without surrounding white space and sign
Unsigned(s) ==
    LET t == Strip(s)
    IN  IF t # <<>> /\ Head(t) \in {"+", "-"} THEN Tail(t) ELSE t

\* int(s) accepts s: optional white space around an optional sign and
\* decimal digits, which single underscores may separate
IsIntLiteral(s) ==
    LET u == Unsigned(s)
    IN  /\ u # <<>>
        /\ \A i \in 1..Len(u) : u[i] \in DigitChars \cup {"_"}
        /\ u[1] # "_"
        /\ u[Len(u)] # "_"
        /\ \A i \in 1..(Len(u) - 1) : ~(u[i] = "_" /\ u[i + 1] = "_")

RECURSIVE DigitsValue(_, _)
DigitsValue(u, acc) ==
    IF u = <<>> THEN acc
    ELSE IF Head(u) = "_" THEN DigitsValue(Tail(u), acc)
    ELSE DigitsValue(Tail(u), 10 * acc + DigitValue(Head(u)))

\* int(s) for a literal int() accepts
PyInt(s) ==
    LET t == Strip(s)
        v == DigitsValue(Unsigned(s), 0)
    IN  IF Head(t) = "-" THEN 0 - v ELSE v

RECURSIVE NatToStr(_)
NatToStr(n) ==
    IF n < 10 THEN <<Digits[n + 1]>>
    ELSE NatToStr(n \div 10) \o <<Digits[(n % 10) + 1]>>

\* str(n) / f"{n}" of an int
IntToStr(n) == IF n < 0 THEN <<"-">> \o NatToStr(0 - n) ELSE NatToStr(n)

(***************************************************************************)
(* The identifiers the sheets are drawn from (column MapIndex).            *)
(***************************************************************************)
\* cell (12,51), band field "00"
Id_12_51 == <<"0", "0", "1", "2", "A", "A", "A", "0", "0", "0", "5", "1">>

\* cell (13,51), the N neighbour of (12,51)
Id_13_51 == <<"0", "0", "1", "3", "A", "A", "A", "0", "0", "0", "5", "1">>

\* cell (12,52), the E neighbour of (12,51)
Id_12_52 == <<"0", "0", "1", "2", "A", "A", "A", "0", "0", "0", "5", "2">>

\* cell (12,50), the W neighbour of (12,51)
Id_12_50 == <<"0", "0", "1", "2", "A", "A", "A", "0", "0", "0", "5", "0">>

\* cell (12,52), with a character the output name replaces
Id_Slash == <<"0", "0", "1", "2", "/", "A", "A", "0", "0", "0", "5", "2">>

\* cell (12,52), with another such character
Id_Quest == <<"0", "0", "1", "2", "?", "A", "A", "0", "0", "0", "5", "2">>

\* 9 characters: [7:12] is cut to "50", cell (12,50)
Id_Short == <<"0", "0", "1", "2", "A", "A", "A", "5", "0">>

\* the first identifier of the end-to-end scenario of the specification
Id_Spec1 == <<"A", "0", "0", "1", "2", "0", "5", "1", "X", "Y", "Z">>

\* the second one
Id_Spec2 == <<"A", "0", "0", "1", "3", "0", "5", "1", "X", "Y", "Z">>

\* row field "A012" is no number, band field "00" is
Id_BadRow == <<"A", "0", "1", "2", "A", "A", "A", "0", "0", "0", "5", "1">>

\* band field "51" is a number, column field "51XYZ" is not
Id_BadCol == <<"0", "0", "1", "2", "A", "A", "A", "5", "1", "X", "Y", "Z">>

\* the identifiers every int() of the program accepts
TargetIds == {Id_12_51, Id_13_51, Id_Slash, Id_Quest, Id_Short}

BoundaryIds == {Id_12_51, Id_13_51, Id_12_52, Id_12_50}

\* the identifiers with a sub-field some int() of the program refuses
MalformedIds == {Id_Spec1, Id_Spec2, Id_BadRow, Id_BadCol}

\* the values of column time (opaque to the program)
Times == {"2025-07-25"}

SeqsUpTo(S, n) == UNION {[1..k -> S] : k \in 0..n}

(***************************************************************************)
(* A sheet file: its suffix, the header row and the data rows.  Cells of   *)
(* column MapIndex are text cells.                                         *)
(***************************************************************************)
AllColumns == {"MapIndex", "time"}

Sheets(ids, n, suffixes) ==
    {[exists |-> TRUE, suffix |-> x, header |-> AllColumns, rows |-> r] :
        x \in suffixes,
        r \in SeqsUpTo([MapIndex : ids, time : Times], n)}

\* a path that names no file
NoSuchFile ==
    [exists |-> FALSE, suffix |-> ".xlsx", header |-> {}, rows |-> <<>>]

\* sheets that lack one of the two columns, and a path that names no file
OddFiles(ids) ==
    {[exists |-> TRUE, suffix |-> ".xlsx", header |-> h,
      rows |-> <<[MapIndex |-> i, time |-> t]>>] :
        h \in {{"MapIndex"}, {"time"}}, i \in ids, t \in Times}
    \cup {NoSuchFile}

\* the identifiers of the .xls target sheets
XlsIds == {Id_12_51, Id_Slash}

\* target sheets whose rows differ in column time as well
TimedSheets ==
    {[exists |-> TRUE, suffix |-> ".xlsx", header |-> AllColumns, rows |-> r] :
        r \in SeqsUpTo({[MapIndex |-> Id_12_51, time |-> "2025-07-25"],
                        [MapIndex |-> Id_13_51, time |-> "2025-07-26"]},
                       MaxTiles)}

\* sheets of at most two rows with malformed identifiers among them
MalformedSheets(good) == Sheets(good \cup MalformedIds, 2, {".xlsx"})

TargetFiles ==
    Sheets(TargetIds, MaxTiles, {".xlsx"})
    \cup MalformedSheets({Id_12_51})
    \cup Sheets(XlsIds, MaxTiles, {".xls"})
    \cup TimedSheets
    \cup OddFiles({Id_12_51})

\* the suffix of the boundary sheet selects the reader only, and both readers
\* return the same rows for text cells
BoundaryFiles ==
    Sheets(BoundaryIds, MaxBoundary, {".xlsx"})
    \cup Sheets({Id_13_51, Id_BadRow}, 2, {".xlsx"})
    \cup OddFiles({Id_13_51})

(***************************************************************************)
(* Exceptions and None.                                                    *)
(***************************************************************************)
None == [py_none |-> TRUE]

NoError == [type |-> "", msg |-> "", literal |-> <<>>]

\* what int(lit) raises for a text that is no integer literal
InvalidLiteral(lit) ==
    [type |-> "ValueError",
     msg |-> "invalid literal for int() with base 10",
     literal |-> lit]

AllInts(strs) == \A i \in 1..Len(strs) : IsIntLiteral(strs[i])

\* the element at which [int(s) for s in strs] raises
FirstBad(strs) ==
    strs[CHOOSE i \in 1..Len(strs) :
            /\ ~IsIntLiteral(strs[i])
            /\ \A j \in 1..(i - 1) : IsIntLiteral(strs[j])]

(***************************************************************************)
(* Loading: _process_excel and _extract_metadata.                          *)
(***************************************************************************)
\* the slices _extract_metadata takes of an identifier
RowField(s) == Slice(s, 0, 4)

ColumnField(s) == Slice(s, 7, 12)

\* the band taken one character early, at [6:8]
BandField_one_early(s) == Slice(s, 6, 8)

BandField(s) == Slice(s, 7, 9)

\* f"{n}°"
Degree(n) == IntToStr(n) \o <<"deg">>

\* the meridian of a 6-degree zone, where the zones of the source are 3 wide
CentralMeridian_six_degrees(band) == band * 6 - 3

\* int(value) * 3
CentralMeridian(band) == band * 3

\* the dict _extract_metadata returns, when no int() raises
extract_metadata(df) ==
    LET map_index == [i \in 1..Len(df) |-> df[i].MapIndex]
    IN  [file_name |-> map_index,
         row_number |-> [i \in 1..Len(df) |-> RowField(map_index[i])],
         column_number |-> [i \in 1..Len(df) |-> ColumnField(map_index[i])],
         band_number |->
            [i \in 1..Len(df) |-> Degree(PyInt(BandField(map_index[i])))],
         central_meridian |->
            [i \in 1..Len(df) |->
                Degree(CentralMeridian(PyInt(BandField(map_index[i]))))],
         flight_times |-> [i \in 1..Len(df) |-> df[i].time]]

\* the band fields of the rows, in row order
BandFields(df) == [i \in 1..Len(df) |-> BandField(df[i].MapIndex)]

\* _process_excel(file_path): the exception it raises (NoError when it
\* returns) and the value it returns
process_excel(file) ==
    IF ~file.exists
    THEN [raised |-> [type |-> "RuntimeError", msg |-> "file does not exist",
                      literal |-> <<>>],
          value |-> None]
    ELSE IF ~({"MapIndex", "time"} \subseteq file.header)
    THEN [raised |-> [type |-> "RuntimeError",
                      msg |-> "error processing file: missing column MapIndex or time",
                      literal |-> <<>>],
          value |-> None]
    ELSE IF ~AllInts(BandFields(file.rows))
    THEN [raised |->
            [type |-> "RuntimeError",
             msg |-> "error processing file: "
                        \o InvalidLiteral(<<>>).msg,
             literal |-> FirstBad(BandFields(file.rows))],
          value |-> None]
    ELSE [raised |-> NoError, value |-> extract_metadata(file.rows)]

\* Path(target_file).suffix.lower(), '.xlsx' unless it is '.xls' or '.xlsx'
OutputFormat(file) ==
    IF file.suffix \in {".xls", ".xlsx"} THEN file.suffix ELSE ".xlsx"

(***************************************************************************)
(* Derivation: TIFF sizes, corner coordinates, adjacency.                  *)
(***************************************************************************)
\* d[k] = v on a dict
SetItem(d, k, v) == (k :> v) @@ d

\* the TIFF folders of the model: the .tif files present (by tile name) and
\* their sizes in bytes
TifFolders == {<<>>, (Id_12_51 :> 1572864) @@ (Id_Slash :> 52429)}

\* "数据不存在"
DataMissing == <<"missing">>

TwoDigits(n) == <<Digits[(n \div 10) + 1], Digits[(n % 10) + 1]>>

\* f"{bytes / (1024 ** 2):.2f}MB": hundredths of a megabyte, rounded to the
\* nearest, a tie to the even one
FormatMB(bytes) ==
    LET unit == 1024 * 1024
        q == (bytes * 100) \div unit
        r == (bytes * 100) % unit
        h == IF 2 * r > unit \/ (2 * r = unit /\ q % 2 = 1) THEN q + 1 ELSE q
    IN  IntToStr(h \div 100) \o <<".">> \o TwoDigits(h % 100) \o <<"M", "B">>

\* the list of sizes with no entry for a tile whose .tif is missing
tif_sizes_skip_missing(names, folder) ==
    LET present == SelectSeq(names, LAMBDA n : n \in DOMAIN folder)
    IN  [i \in 1..Len(present) |-> FormatMB(folder[present[i]])]

\* the list _add_tif_sizes builds
tif_sizes(names, folder) ==
    [i \in 1..Len(names) |->
        IF names[i] \in DOMAIN folder
        THEN FormatMB(folder[names[i]])
        ELSE DataMissing]

\* linear units of one grid step
CellSize == 1000

\* the axis value with one fractional digit
TwoDecimals_one_digit(n) == IntToStr(n) \o <<".", "0">>

\* f"{n}.00"
TwoDecimals(n) == IntToStr(n) \o <<".", "0", "0">>

\* "文件:"
FilePrefix == <<"file:">>

\* the fields _generate_coordinates adds, when no int() raises
generate_coordinates(md) ==
    LET n == Len(md["row_number"])
        row == [i \in 1..n |-> PyInt(md["row_number"][i])]
        col == [i \in 1..n |-> PyInt(md["column_number"][i])]
    IN  [WS_X |-> [i \in 1..n |-> TwoDecimals(row[i] * CellSize)],
         WS_Y |-> [i \in 1..n |-> TwoDecimals(col[i] * CellSize)],
         WN_X |-> [i \in 1..n |-> TwoDecimals((row[i] + 1) * CellSize)],
         WN_Y |-> [i \in 1..n |-> TwoDecimals(col[i] * CellSize)],
         EN_X |-> [i \in 1..n |-> TwoDecimals((row[i] + 1) * CellSize)],
         EN_Y |-> [i \in 1..n |-> TwoDecimals((col[i] + 1) * CellSize)],
         ES_X |-> [i \in 1..n |-> TwoDecimals(row[i] * CellSize)],
         ES_Y |-> [i \in 1..n |-> TwoDecimals((col[i] + 1) * CellSize)],
         filename |-> [i \in 1..n |-> FilePrefix \o md["file_name"][i]]]
    @@ md

\* a boundary index that drops a cell named by more than one row
get_boundary_coordinates_drop_repeated(bd) ==
    LET cell(i) == <<PyInt(bd["row_number"][i]), PyInt(bd["column_number"][i])>>
        rows == 1..Len(bd["row_number"])
    IN  {cell(i) : i \in {j \in rows : \A k \in rows : cell(k) = cell(j) => k = j}}

\* set(zip(rows, columns)) of the boundary data, when no int() raises
get_boundary_coordinates(bd) ==
    {<<PyInt(bd["row_number"][i]), PyInt(bd["column_number"][i])>> :
        i \in 1..Len(bd["row_number"])}

\* "已接"
Connected == <<"connected">>

\* "自由边"
FreeEdge == <<"free edge">>

\* "无"
NoName == <<"none">>

\* f"{r}.0-{c}.0"
generate_filename(r, c) ==
    IntToStr(r) \o <<".", "0", "-">> \o IntToStr(c) \o <<".", "0">>

\* the table of _process_directional_connections
directions ==
    <<[name |-> "N", dr |-> 1, dc |-> 0],
      [name |-> "S", dr |-> -1, dc |-> 0],
      [name |-> "E", dr |-> 0, dc |-> 1],
      [name |-> "W", dr |-> 0, dc |-> -1]>>

\* the diagonals with the southern offsets pointing north
diagonals_south_as_north ==
    <<[name |-> "WN", dr |-> 1, dc |-> -1],
      [name |-> "EN", dr |-> 1, dc |-> 1],
      [name |-> "WS", dr |-> 1, dc |-> -1],
      [name |-> "ES", dr |-> 1, dc |-> 1]>>

\* the table of _process_diagonal_connections
diagonals ==
    <<[name |-> "WN", dr |-> 1, dc |-> -1],
      [name |-> "EN", dr |-> 1, dc |-> 1],
      [name |-> "WS", dr |-> -1, dc |-> -1],
      [name |-> "ES", dr |-> -1, dc |-> 1]>>

\* the list target_coord of either loop, for one direction
target_coord(md, d) ==
    [i \in 1..Len(md["row_number"]) |->
        <<PyInt(md["row_number"][i]) + d.dr,
          PyInt(md["column_number"][i]) + d.dc>>]

\* link_list testing the tile's own cell, not the neighbouring one
link_list_own_cell(md, d, boundary) ==
    [i \in 1..Len(md["row_number"]) |->
        IF <<PyInt(md["row_number"][i]), PyInt(md["column_number"][i])>>
              \in boundary
        THEN Connected ELSE FreeEdge]

link_list(md, d, boundary) ==
    LET tc == target_coord(md, d)
    IN  [i \in 1..Len(tc) |->
            IF tc[i] \in boundary THEN Connected ELSE FreeEdge]

\* filename_list naming the neighbouring cell without the membership test
filename_list_always_named(md, d, boundary) ==
    LET tc == target_coord(md, d)
    IN  [i \in 1..Len(tc) |-> generate_filename(tc[i][1], tc[i][2])]

filename_list(md, d, boundary) ==
    LET tc == target_coord(md, d)
    IN  [i \in 1..Len(tc) |->
            IF tc[i] \in boundary
            THEN generate_filename(tc[i][1], tc[i][2])
            ELSE NoName]

\* the loop of _process_directional_connections over the directions ds
RECURSIVE process_directional_connections(_, _, _)
process_directional_connections(md, ds, boundary) ==
    IF ds = <<>> THEN md
    ELSE process_directional_connections(
            SetItem(SetItem(md, "Link_" \o Head(ds).name,
                            link_list(md, Head(ds), boundary)),
                    "filename_" \o Head(ds).name,
                    filename_list(md, Head(ds), boundary)),
            Tail(ds), boundary)

\* the diagonal loop also writing a link status, as the cardinal loop does
process_diagonal_connections_with_link(md, ds, boundary) ==
    process_directional_connections(md, ds, boundary)

\* the loop of _process_diagonal_connections over the diagonals ds
RECURSIVE process_diagonal_connections(_, _, _)
process_diagonal_connections(md, ds, boundary) ==
    IF ds = <<>> THEN md
    ELSE process_diagonal_connections(
            SetItem(md, "filename_" \o Head(ds).name,
                    filename_list(md, Head(ds), boundary)),
            Tail(ds), boundary)

(***************************************************************************)
(* Validation and output.                                                  *)
(***************************************************************************)
Range(f) == {f[x] : x \in DOMAIN f}

\* the validator without its length check
validate_data_consistency_no_length_check(md) ==
    IF Len(md["file_name"]) # Cardinality(Range(md["file_name"]))
    THEN [type |-> "ValueError", msg |-> "duplicate file names",
          literal |-> <<>>]
    ELSE NoError

\* what _validate_data_consistency raises (NoError when it returns)
validate_data_consistency(md) ==
    IF Cardinality({Len(md[k]) : k \in DOMAIN md}) > 1
    THEN [type |-> "ValueError", msg |-> "inconsistent field lengths",
          literal |-> <<>>]
    ELSE IF Len(md["file_name"]) # Cardinality(Range(md["file_name"]))
    THEN [type |-> "ValueError", msg |-> "duplicate file names",
          literal |-> <<>>]
    ELSE NoError

\* the characters re.sub(r'[\\/*?:"<>|]', '_', ...) replaces
Forbidden == {"\\", "/", "*", "?", ":", "\"", "<", ">", "|"}

\* safe_name of _generate_single_file
SafeName(orig_name) ==
    Strip([i \in 1..Len(orig_name) |->
            IF orig_name[i] \in Forbidden THEN "_" ELSE orig_name[i]])

\* output_path of _generate_single_file, relative to the output directory
OutputPath(orig_name, format) == SafeName(orig_name) \o <<format>>

\* the table mapping of _generate_output: field -> cell of the template
mapping ==
    [filename |-> "A1", file_name |-> "C8", tif_size |-> "C17",
     WS_X |-> "C20", WS_Y |-> "C21", WN_X |-> "C22", WN_Y |-> "C23",
     EN_X |-> "C24", EN_Y |-> "C25", ES_X |-> "C26", ES_Y |-> "C27",
     Link_W |-> "C41", Link_N |-> "C42", Link_E |-> "C43", Link_S |-> "C44",
     filename_WN |-> "C45", filename_N |-> "C46", filename_EN |-> "C47",
     filename_W |-> "C48", filename_E |-> "C49", filename_WS |-> "C50",
     filename_S |-> "C51", filename_ES |-> "C52",
     band_number |-> "C37", central_meridian |-> "C35",
     flight_times |-> "C68"]

\* the cells of a fresh copy of the template that the program writes: none
Template == <<>>

\* the sheet after _write_xlsx / _write_xls have written row index of md
\* into the copy `sheet` (cell address -> value)
write_cells(sheet, md, index) ==
    LET fields == DOMAIN mapping \cap DOMAIN md
    IN  [c \in {mapping[f] : f \in fields} |->
            md[CHOOSE f \in fields : mapping[f] = c][index]]
        @@ sheet

(***************************************************************************)
(* State.                                                                  *)
(***************************************************************************)
VARIABLES
    boundary_file,   \* the sheet load_data reads as boundary_file
    target_file,     \* the sheet load_data reads as target_file
    boundary_data,   \* self.boundary_data
    metadata_data,   \* self.metadata_data
    output_format,   \* self.output_format
    boundary_coord,  \* boundary_coord of _process_boundary_connections
    dir_made,        \* os.makedirs(output_dir) has been called
    files,           \* the files written to output_dir: path -> cells
    idx,             \* idx of the loop of _generate_output (from 1)
    pc,              \* the position in load_data / generate_metadata
    error,           \* the exception that left them, NoError if none
    trace            \* the calls completed or failed so far, in order

vars ==
    <<boundary_file, target_file, boundary_data, metadata_data,
      output_format, boundary_coord, dir_made, files, idx, pc, error, trace>>

\* the state __init__ leaves, for the two sheets bf and tf
Constructed(bf, tf) ==
    /\ boundary_file = bf
    /\ target_file = tf
    /\ boundary_data = None
    /\ metadata_data = None
    /\ output_format = ".xlsx"
    /\ boundary_coord = {}
    /\ dir_made = FALSE
    /\ files = <<>>
    /\ idx = 0
    /\ pc = "new"
    /\ error = NoError
    /\ trace = <<>>

Init == \E bf \in BoundaryFiles, tf \in TargetFiles : Constructed(bf, tf)

\* an exception e leaves the call named step
Raise(step, e) ==
    /\ pc' = "failed"
    /\ error' = e
    /\ trace' = Append(trace, <<step, "raised">>)

\* the call named step returns and control is at position next
Return(step, next) ==
    /\ pc' = next
    /\ error' = NoError
    /\ trace' = Append(trace, <<step, "returned">>)

(***************************************************************************)
(* load_data, and the steps of generate_metadata in the order it calls     *)
(* them.                                                                   *)
(***************************************************************************)
LoadData ==
    /\ pc = "new"
    /\ output_format' = OutputFormat(target_file)
    /\ LET b == process_excel(boundary_file)
           t == process_excel(target_file)
       IN  IF b.raised # NoError
           THEN /\ UNCHANGED <<boundary_data, metadata_data>>
                /\ Raise("load_data", b.raised)
           ELSE IF t.raised # NoError
           THEN /\ boundary_data' = b.value
                /\ UNCHANGED metadata_data
                /\ Raise("load_data", t.raised)
           ELSE /\ boundary_data' = b.value
                /\ metadata_data' = t.value
                /\ Return("load_data", "loaded")
    /\ UNCHANGED <<boundary_file, target_file, boundary_coord, dir_made,
                   files, idx>>

AddTifSizes ==
    /\ pc = "loaded"
    /\ \E folder \in TifFolders :
          metadata_data' =
              SetItem(metadata_data, "tif_size",
                      tif_sizes(metadata_data["file_name"], folder))
    /\ Return("_add_tif_sizes", "sized")
    /\ UNCHANGED <<boundary_file, target_file, boundary_data, output_format,
                   boundary_coord, dir_made, files, idx>>

GenerateCoordinates ==
    /\ pc = "sized"
    /\ LET rows == metadata_data["row_number"]
           cols == metadata_data["column_number"]
       IN  IF ~AllInts(rows)
           THEN /\ UNCHANGED metadata_data
                /\ Raise("_generate_coordinates",
                         InvalidLiteral(FirstBad(rows)))
           ELSE IF ~AllInts(cols)
           THEN /\ UNCHANGED metadata_data
                /\ Raise("_generate_coordinates",
                         InvalidLiteral(FirstBad(cols)))
           ELSE /\ metadata_data' = generate_coordinates(metadata_data)
                /\ Return("_generate_coordinates", "coords")
    /\ UNCHANGED <<boundary_file, target_file, boundary_data, output_format,
                   boundary_coord, dir_made, files, idx>>

GetBoundaryCoordinates ==
    /\ pc = "coords"
    /\ LET rows == boundary_data["row_number"]
           cols == boundary_data["column_number"]
       IN  IF ~AllInts(rows)
           THEN /\ UNCHANGED boundary_coord
                /\ Raise("_get_boundary_coordinates",
                         InvalidLiteral(FirstBad(rows)))
           ELSE IF ~AllInts(cols)
           THEN /\ UNCHANGED boundary_coord
                /\ Raise("_get_boundary_coordinates",
                         InvalidLiteral(FirstBad(cols)))
           ELSE /\ boundary_coord' = get_boundary_coordinates(boundary_data)
                /\ Return("_get_boundary_coordinates", "boundary")
    /\ UNCHANGED <<boundary_file, target_file, boundary_data, metadata_data,
                   output_format, dir_made, files, idx>>

ProcessDirectionalConnections ==
    /\ pc = "boundary"
    /\ metadata_data' =
          process_directional_connections(metadata_data, directions,
                                          boundary_coord)
    /\ Return("_process_directional_connections", "cardinal")
    /\ UNCHANGED <<boundary_file, target_file, boundary_data, output_format,
                   boundary_coord, dir_made, files, idx>>

ProcessDiagonalConnections ==
    /\ pc = "cardinal"
    /\ metadata_data' =
          process_diagonal_connections(metadata_data, diagonals,
                                       boundary_coord)
    /\ Return("_process_diagonal_connections", "diagonal")
    /\ UNCHANGED <<boundary_file, target_file, boundary_data, output_format,
                   boundary_coord, dir_made, files, idx>>

ValidateDataConsistency ==
    /\ pc = "diagonal"
    /\ LET e == validate_data_consistency(metadata_data)
       IN  IF e # NoError
           THEN Raise("_validate_data_consistency", e)
           ELSE Return("_validate_data_consistency", "validated")
    /\ UNCHANGED <<boundary_file, target_file, boundary_data, metadata_data,
                   output_format, boundary_coord, dir_made, files, idx>>

\* the output directory made before the validator is called
MakeDirs_before_validation ==
    /\ pc = "diagonal"
    /\ dir_made' = TRUE
    /\ idx' = 1
    /\ Return("makedirs",
              IF Len(metadata_data["file_name"]) = 0
              THEN "done" ELSE "writing")
    /\ UNCHANGED <<boundary_file, target_file, boundary_data, metadata_data,
                   output_format, boundary_coord, files>>

\* os.makedirs(output_dir, exist_ok=True) and the entry of the loop over
\* file_name; idx counts from 1 here, from 0 in the source
MakeDirs ==
    /\ pc = "validated"
    /\ dir_made' = TRUE
    /\ idx' = 1
    /\ Return("makedirs",
              IF Len(metadata_data["file_name"]) = 0
              THEN "done" ELSE "writing")
    /\ UNCHANGED <<boundary_file, target_file, boundary_data, metadata_data,
                   output_format, boundary_coord, files>>

\* one iteration of the loop: _generate_single_file(idx, orig_name, ...).
\* shutil.copy or the writer may raise (the file system decides)
GenerateSingleFile ==
    /\ pc = "writing"
    /\ LET orig_name == metadata_data["file_name"][idx]
           path == OutputPath(orig_name, output_format)
           copied == SetItem(files, path, Template)
       IN  \E outcome \in {"written", "copy raises", "write raises"} :
              CASE outcome = "copy raises" ->
                      /\ UNCHANGED <<files, idx>>
                      /\ Raise("_generate_single_file",
                               [type |-> "OSError", msg |-> "copy failed",
                                literal |-> <<>>])
                [] outcome = "write raises" ->
                      /\ files' = copied
                      /\ UNCHANGED idx
                      /\ Raise("_generate_single_file",
                               [type |-> "OSError", msg |-> "write failed",
                                literal |-> <<>>])
                [] outcome = "written" ->
                      /\ files' =
                            SetItem(files, path,
                                    write_cells(copied[path], metadata_data,
                                                idx))
                      /\ idx' = idx + 1
                      /\ Return("_generate_single_file",
                                IF idx = Len(metadata_data["file_name"])
                                THEN "done" ELSE "writing")
    /\ UNCHANGED <<boundary_file, target_file, boundary_data, metadata_data,
                   output_format, boundary_coord, dir_made>>

Next ==
    \/ LoadData
    \/ AddTifSizes
    \/ GenerateCoordinates
    \/ GetBoundaryCoordinates
    \/ ProcessDirectionalConnections
    \/ ProcessDiagonalConnections
    \/ ValidateDataConsistency
    \/ MakeDirs
    \/ GenerateSingleFile

Spec == Init /\ [][Next]_vars

(***************************************************************************)
(* _validate_data_consistency as a function of the record set: it is       *)
(* applied to record sets whose fields have any lengths, which the         *)
(* derivation steps above never produce.                                   *)
(***************************************************************************)
RecordSets ==
    [file_name : SeqsUpTo({Id_12_51, Id_13_51}, MaxTiles),
     tif_size : SeqsUpTo({DataMissing}, MaxTiles),
     Link_N : SeqsUpTo({Connected, FreeEdge}, MaxTiles)]

InitValidator ==
    \E md \in RecordSets :
        /\ boundary_file = NoSuchFile
        /\ target_file = NoSuchFile
        /\ boundary_data = None
        /\ metadata_data = md
        /\ output_format = ".xlsx"
        /\ boundary_coord = {}
        /\ dir_made = FALSE
        /\ files = <<>>
        /\ idx = 0
        /\ pc = "diagonal"
        /\ error = NoError
        /\ trace = <<>>

SpecValidator == InitValidator /\ [][ValidateDataConsistency]_vars

(***************************************************************************)
(* Properties.  The expected values are written from the statements, by    *)
(* hand, and not with the operators that model the code.                   *)
(***************************************************************************)
\* the grid cell each identifier names: row = characters [0,4), column =
\* characters [7,12), read as decimal numbers
ExpectedCell(id) ==
    CASE id \in {Id_12_51} -> <<12, 51>>
      [] id \in {Id_13_51} -> <<13, 51>>
      [] id \in {Id_12_52, Id_Slash, Id_Quest} -> <<12, 52>>
      [] id \in {Id_12_50, Id_Short} -> <<12, 50>>
      [] OTHER -> <<-1, -1>>

\* the offsets of the four cardinal and the four diagonal directions
CardinalOffsets ==
    [N |-> <<1, 0>>, S |-> <<-1, 0>>, E |-> <<0, 1>>, W |-> <<0, -1>>]

DiagonalOffsets ==
    [WN |-> <<1, -1>>, EN |-> <<1, 1>>, WS |-> <<-1, -1>>, ES |-> <<-1, 1>>]

\* "{r}.0-{c}.0"
ExpectedName(cell) ==
    IntToStr(cell[1]) \o <<".", "0", "-">> \o IntToStr(cell[2]) \o <<".", "0">>

Tiles == 1..Len(metadata_data["file_name"])

\* the cell of tile i, and its neighbour at offset off
TileCell(i) == ExpectedCell(metadata_data["file_name"][i])

Neighbour(i, off) == <<TileCell(i)[1] + off[1], TileCell(i)[2] + off[2]>>

Has(field) == field \in DOMAIN metadata_data

\* C1: once _process_directional_connections has run, for every tile and
\* every cardinal direction d: if the neighbouring cell at d's offset is in
\* the boundary set, Link_d is "connected" and filename_d names that cell
\* as "{row}.0-{column}.0"; otherwise Link_d is "free edge" and filename_d
\* is "none".
C1_CardinalAdjacency ==
    Has("Link_N") =>
        \A i \in Tiles : \A d \in DOMAIN CardinalOffsets :
            LET nb == Neighbour(i, CardinalOffsets[d])
                link == metadata_data["Link_" \o d][i]
                name == metadata_data["filename_" \o d][i]
            IN  IF nb \in boundary_coord
                THEN link = Connected /\ name = ExpectedName(nb)
                ELSE link = FreeEdge /\ name = NoName

\* the tile at (12,51) after the cardinal step, with (13,51) and (12,52) in
\* the boundary set and (11,51) not in it
C1_Witness ==
    /\ pc = "cardinal"
    /\ \E i \in Tiles :
          /\ metadata_data["file_name"][i] = Id_12_51
          /\ metadata_data["Link_N"][i] = Connected
          /\ metadata_data["filename_N"][i] =
                <<"1", "3", ".", "0", "-", "5", "1", ".", "0">>
          /\ metadata_data["Link_E"][i] = Connected
          /\ metadata_data["filename_E"][i] =
                <<"1", "2", ".", "0", "-", "5", "2", ".", "0">>
          /\ metadata_data["Link_S"][i] = FreeEdge
          /\ metadata_data["filename_S"][i] = NoName

\* the fields of the record set that are no adjacency outcome
OtherFields ==
    {"file_name", "row_number", "column_number", "band_number",
     "central_meridian", "flight_times", "tif_size", "filename",
     "WS_X", "WS_Y", "WN_X", "WN_Y", "EN_X", "EN_Y", "ES_X", "ES_Y"}

LinkFields == {"Link_N", "Link_S", "Link_E", "Link_W"}

NeighbourFields ==
    {"filename_N", "filename_S", "filename_E", "filename_W",
     "filename_WN", "filename_EN", "filename_WS", "filename_ES"}

\* C2: once _process_diagonal_connections has run, for every tile and
\* every diagonal direction d, filename_d names the neighbouring cell when
\* it is in the boundary set and is "none" otherwise; the adjacency fields
\* of the record set are exactly the 4 link-status fields of N, S, E, W and
\* the 8 neighbour-filename fields: no diagonal has a link-status field.
C2_DiagonalAdjacency ==
    Has("filename_WN") =>
        /\ \A i \in Tiles : \A d \in DOMAIN DiagonalOffsets :
              LET nb == Neighbour(i, DiagonalOffsets[d])
              IN  metadata_data["filename_" \o d][i] =
                      IF nb \in boundary_coord
                      THEN ExpectedName(nb) ELSE NoName
        /\ DOMAIN metadata_data \ OtherFields = LinkFields \cup NeighbourFields
        /\ Cardinality(DOMAIN metadata_data \cap LinkFields) = 4
        /\ Cardinality(DOMAIN metadata_data \cap NeighbourFields) = 8

\* the tile at (13,51) after the diagonal step, with (12,52) in the boundary
\* set and (14,52) not in it
C2_Witness ==
    /\ pc = "diagonal"
    /\ \E i \in Tiles :
          /\ metadata_data["file_name"][i] = Id_13_51
          /\ metadata_data["filename_ES"][i] =
                <<"1", "2", ".", "0", "-", "5", "2", ".", "0">>
          /\ metadata_data["filename_EN"][i] = NoName

\* "{n}.00"
ExpectedAxis(n) == IntToStr(n) \o <<".", "0", "0">>

\* C3: once _generate_coordinates has run, the corners of every tile at
\* cell (r,c) are SW = (r*1000, c*1000), NW = ((r+1)*1000, c*1000),
\* NE = ((r+1)*1000, (c+1)*1000), SE = (r*1000, (c+1)*1000), each axis value
\* written as the integer followed by ".00".
C3_CornerCoordinates ==
    Has("WS_X") =>
        \A i \in Tiles :
            LET r == TileCell(i)[1]
                c == TileCell(i)[2]
            IN  /\ metadata_data["WS_X"][i] = ExpectedAxis(r * 1000)
                /\ metadata_data["WS_Y"][i] = ExpectedAxis(c * 1000)
                /\ metadata_data["WN_X"][i] = ExpectedAxis((r + 1) * 1000)
                /\ metadata_data["WN_Y"][i] = ExpectedAxis(c * 1000)
                /\ metadata_data["EN_X"][i] = ExpectedAxis((r + 1) * 1000)
                /\ metadata_data["EN_Y"][i] = ExpectedAxis((c + 1) * 1000)
                /\ metadata_data["ES_X"][i] = ExpectedAxis(r * 1000)
                /\ metadata_data["ES_Y"][i] = ExpectedAxis((c + 1) * 1000)

\* the tile at (12,51) right after the coordinate step
C3_Witness ==
    /\ pc = "coords"
    /\ \E i \in Tiles :
          /\ metadata_data["file_name"][i] = Id_12_51
          /\ metadata_data["WS_X"][i] = <<"1", "2", "0", "0", "0", ".", "0", "0">>
          /\ metadata_data["WS_Y"][i] = <<"5", "1", "0", "0", "0", ".", "0", "0">>
          /\ metadata_data["EN_X"][i] = <<"1", "3", "0", "0", "0", ".", "0", "0">>
          /\ metadata_data["EN_Y"][i] = <<"5", "2", "0", "0", "0", ".", "0", "0">>

\* the band number the two digits at [7,9) spell
ExpectedBand(id) == 10 * DigitValue(id[8]) + DigitValue(id[9])

\* C4: for every loaded identifier of the fixed width (12 characters or
\* more) the parser yields row = characters [0,4), column field =
\* characters [7,12), band = the number at characters [7,9) and central
\* meridian = band * 3 (both stored with a degree sign).
C4_ParsedFields ==
    metadata_data # None =>
        \A i \in Tiles :
            LET id == metadata_data["file_name"][i]
            IN  Len(id) >= 12 =>
                    /\ metadata_data["row_number"][i] =
                          <<id[1], id[2], id[3], id[4]>>
                    /\ metadata_data["column_number"][i] =
                          <<id[8], id[9], id[10], id[11], id[12]>>
                    /\ metadata_data["band_number"][i] =
                          IntToStr(ExpectedBand(id)) \o <<"deg">>
                    /\ metadata_data["central_meridian"][i] =
                          IntToStr(ExpectedBand(id) * 3) \o <<"deg">>

\* an identifier with "51" at [7,9), just loaded: band 51, meridian 153
C4_Witness ==
    /\ pc = "loaded"
    /\ \E i \in Tiles :
          /\ metadata_data["file_name"][i] = Id_BadCol
          /\ metadata_data["row_number"][i] = <<"0", "0", "1", "2">>
          /\ metadata_data["column_number"][i] = <<"5", "1", "X", "Y", "Z">>
          /\ metadata_data["band_number"][i] = <<"5", "1", "deg">>
          /\ metadata_data["central_meridian"][i] = <<"1", "5", "3", "deg">>

\* C5: in every run that has passed validation, the output file names of
\* the tiles (the names after replacing \ / * ? : " < > | by '_' and
\* stripping) are pairwise distinct.
C5_DistinctOutputNames ==
    pc \in {"validated", "writing", "done"} =>
        \A i, j \in Tiles :
            i # j =>
                OutputPath(metadata_data["file_name"][i], output_format)
                    # OutputPath(metadata_data["file_name"][j], output_format)

LengthError == "inconsistent field lengths"

\* C6: the validator raises the inconsistent-field-length error exactly
\* when some field of the record set has a length other than the number of
\* tiles (the length of file_name); it passes the length check only when
\* every field has one entry per tile.
C6_LengthCheck ==
    pc \in {"validated", "failed"} =>
        (error.msg = LengthError
            <=> \E k \in DOMAIN metadata_data :
                    Len(metadata_data[k]) # Len(metadata_data["file_name"]))

\* a record set whose tif_size is shorter than file_name has been refused
C6_Witness ==
    /\ pc = "failed"
    /\ error.msg = LengthError
    /\ Len(metadata_data["tif_size"]) < Len(metadata_data["file_name"])
    /\ Len(metadata_data["Link_N"]) = Len(metadata_data["file_name"])

Validator == "_validate_data_consistency"

Derivations ==
    {"_add_tif_sizes", "_generate_coordinates",
     "_process_directional_connections", "_process_diagonal_connections"}

Outputs == {"makedirs", "_generate_single_file"}

Calls(step) == {k \in 1..Len(trace) : trace[k][1] = step}

\* C7: in every run the validator is called at most once, and exactly once
\* in every run that completes; it is called after the file-size,
\* coordinate and adjacency steps have returned and before the output
\* directory is made or a tile file written; when it raises, the run has
\* failed with no directory made and no file written.
C7_ValidatorGate ==
    /\ Cardinality(Calls(Validator)) <= 1
    /\ pc = "done" => Cardinality(Calls(Validator)) = 1
    /\ \A k \in Calls(Validator) : \A s \in Derivations :
          \E j \in 1..(k - 1) : trace[j] = <<s, "returned">>
    /\ (dir_made \/ files # <<>> \/ \E s \in Outputs : Calls(s) # {}) =>
          \E k \in Calls(Validator) :
              /\ trace[k] = <<Validator, "returned">>
              /\ \A s \in Outputs : \A j \in Calls(s) : k < j
    /\ (\E k \in Calls(Validator) : trace[k] = <<Validator, "raised">>) =>
          /\ pc = "failed"
          /\ ~dir_made
          /\ files = <<>>
          /\ \A s \in Outputs : Calls(s) = {}

\* a run in which the validator has raised, after all four derivation steps
C7_Witness ==
    /\ pc = "failed"
    /\ Len(trace) = 7
    /\ trace[7] = <<Validator, "raised">>
    /\ ~dir_made

\* the target sheet has both columns, so that its rows are read
TargetRead == target_file.exists /\ AllColumns \subseteq target_file.header

TargetIdentifiers ==
    [k \in 1..Len(target_file.rows) |-> target_file.rows[k].MapIndex]

\* C8: once load_data has ended, a target sheet with an identifier of fewer
\* than 12 characters has yielded no record set: the load has raised.
C8_ShortIdentifierRejected ==
    (/\ pc # "new"
     /\ TargetRead
     /\ \E k \in DOMAIN TargetIdentifiers : Len(TargetIdentifiers[k]) < 12)
        => (metadata_data = None /\ error # NoError)

\* the identifiers whose row, column and band fields are numbers at the
\* fixed offsets
WellFormedIds == {Id_12_51, Id_13_51, Id_Slash, Id_Quest}

\* C9: once load_data has ended with the boundary sheet loaded, every
\* well-formed row of the target sheet has its record, whatever the other
\* rows of the sheet are.
C9_MalformedTileIsolated ==
    (pc # "new" /\ boundary_data # None /\ TargetRead) =>
        \A k \in DOMAIN TargetIdentifiers :
            TargetIdentifiers[k] \in WellFormedIds =>
                /\ metadata_data # None
                /\ TargetIdentifiers[k] \in Range(metadata_data["file_name"])

\* the boundary sheet is read, all its identifiers are well formed, and
\* they name the cell (13,51) and not the cell (12,51)
BoundaryOfScenario ==
    /\ boundary_file.exists
    /\ AllColumns \subseteq boundary_file.header
    /\ \A k \in DOMAIN boundary_file.rows :
          boundary_file.rows[k].MapIndex \in {Id_13_51, Id_12_52, Id_12_50}
    /\ \E k \in DOMAIN boundary_file.rows :
          boundary_file.rows[k].MapIndex = Id_13_51

\* the scenario with the identifiers as the statement gives them
ScenarioAsStated ==
    /\ TargetRead
    /\ TargetIdentifiers = <<Id_Spec1, Id_Spec2>>
    /\ BoundaryOfScenario

\* the scenario with row and column at the parser's offsets
ScenarioAtOffsets ==
    /\ TargetRead
    /\ TargetIdentifiers = <<Id_12_51, Id_13_51>>
    /\ BoundaryOfScenario

Name_13_51 == <<"1", "3", ".", "0", "-", "5", "1", ".", "0">>

\* C10 as stated: with target identifiers "A0012051XYZ", "A0013051XYZ" and a
\* boundary set with (13,51) and without (12,51), the load succeeds, the
\* first tile has row 12 and band 51 and its N direction is connected with
\* neighbour "13.0-51.0".
C10_AsStated ==
    (ScenarioAsStated /\ pc # "new") =>
        /\ metadata_data # None
        /\ PyInt(metadata_data["row_number"][1]) = 12
        /\ metadata_data["band_number"][1] = <<"5", "1", "deg">>
        /\ Has("Link_N") =>
              /\ metadata_data["Link_N"][1] = Connected
              /\ metadata_data["filename_N"][1] = Name_13_51

\* C10 amended: with those identifiers load_data raises on the band field
\* "1X" and no tile is parsed; with the identifiers "0012AAA00051",
\* "0013AAA00051" the load, the derivation steps and the validator all
\* succeed, the first tile has row field "0012", column field "00051" and
\* band 0, and its N direction is connected with neighbour "13.0-51.0".
C10_Amended ==
    /\ (ScenarioAsStated /\ pc # "new") =>
          /\ pc = "failed"
          /\ trace = <<<<"load_data", "raised">>>>
          /\ error.type = "RuntimeError"
          /\ error.literal = <<"1", "X">>
          /\ metadata_data = None
    /\ (ScenarioAtOffsets /\ pc # "new") =>
          /\ metadata_data # None
          /\ metadata_data["row_number"][1] = <<"0", "0", "1", "2">>
          /\ metadata_data["column_number"][1] = <<"0", "0", "0", "5", "1">>
          /\ metadata_data["band_number"][1] = <<"0", "deg">>
          /\ pc = "failed" =>
                trace[Len(trace)] = <<"_generate_single_file", "raised">>
          /\ Has("Link_N") =>
                /\ metadata_data["Link_N"][1] = Connected
                /\ metadata_data["filename_N"][1] = Name_13_51

\* the amended scenario after the cardinal step
C10_Witness ==
    /\ ScenarioAtOffsets
    /\ pc = "cardinal"
    /\ metadata_data["Link_N"][1] = Connected
    /\ metadata_data["filename_N"][1] = Name_13_51

\* the size text of the .tif files the folders of the model hold
ExpectedSizes(id) ==
    CASE id = Id_12_51 -> {DataMissing, <<"1", ".", "5", "0", "M", "B">>}
      [] id = Id_Slash -> {DataMissing, <<"0", ".", "0", "5", "M", "B">>}
      [] OTHER -> {DataMissing}

\* the value the boundary set gives the neighbour of row k's cell at off
ExpectedNeighbourName(k, off) ==
    LET cell == ExpectedCell(TargetIdentifiers[k])
        nb == <<cell[1] + off[1], cell[2] + off[2]>>
    IN  IF nb \in boundary_coord THEN ExpectedName(nb) ELSE NoName

\* C11: after the parse and after every later derivation step, every field
\* of the record set has one entry per row of the target sheet, and the
\* entry at position i of a field is the value derived from row i of the
\* sheet: its identifier (its slices, its cell's corners, its neighbours,
\* the size of its .tif) and its time.
C11_RowOrderKept ==
    pc \in {"loaded", "sized", "coords", "boundary", "cardinal", "diagonal"} =>
        /\ \A f \in DOMAIN metadata_data :
              Len(metadata_data[f]) = Len(target_file.rows)
        /\ \A k \in DOMAIN target_file.rows :
              LET id == TargetIdentifiers[k]
                  cell == ExpectedCell(id)
              IN  /\ metadata_data["file_name"][k] = id
                  /\ metadata_data["flight_times"][k] = target_file.rows[k].time
                  /\ metadata_data["row_number"][k] =
                        <<id[1], id[2], id[3], id[4]>>
                  /\ Has("tif_size") =>
                        metadata_data["tif_size"][k] \in ExpectedSizes(id)
                  /\ Has("WS_X") =>
                        /\ metadata_data["WS_X"][k] = ExpectedAxis(cell[1] * 1000)
                        /\ metadata_data["EN_Y"][k] =
                              ExpectedAxis((cell[2] + 1) * 1000)
                        /\ metadata_data["filename"][k] = <<"file:">> \o id
                  /\ Has("Link_N") =>
                        /\ metadata_data["filename_N"][k] =
                              ExpectedNeighbourName(k, CardinalOffsets.N)
                        /\ metadata_data["filename_W"][k] =
                              ExpectedNeighbourName(k, CardinalOffsets.W)
                        /\ (metadata_data["Link_N"][k] = Connected
                              <=> metadata_data["filename_N"][k] # NoName)
                  /\ Has("filename_WN") =>
                        /\ metadata_data["filename_EN"][k] =
                              ExpectedNeighbourName(k, DiagonalOffsets.EN)
                        /\ metadata_data["filename_WS"][k] =
                              ExpectedNeighbourName(k, DiagonalOffsets.WS)

\* two rows that differ in identifier, time, .tif and neighbours, after the
\* last derivation step: (13,51) first, (12,51) second
C11_Witness ==
    /\ pc = "diagonal"
    /\ TargetIdentifiers = <<Id_13_51, Id_12_51>>
    /\ metadata_data["flight_times"] = <<"2025-07-26", "2025-07-25">>
    /\ metadata_data["tif_size"] =
          <<DataMissing, <<"1", ".", "5", "0", "M", "B">>>>
    /\ metadata_data["WS_X"] =
          << <<"1", "3", "0", "0", "0", ".", "0", "0">>,
             <<"1", "2", "0", "0", "0", ".", "0", "0">> >>
    /\ metadata_data["filename_N"] = <<NoName, Name_13_51>>

\* a boundary sheet that exists, has column MapIndex and whose every
\* identifier has the row at [0,4) and the column at [7,12)
BoundaryIdentifiersOnly ==
    /\ boundary_file.exists
    /\ "MapIndex" \in boundary_file.header
    /\ \A k \in DOMAIN boundary_file.rows :
          boundary_file.rows[k].MapIndex
              \in {Id_12_51, Id_13_51, Id_12_52, Id_12_50}

\* C12: once load_data has ended, a boundary sheet with column MapIndex and
\* well-formed identifiers has been loaded, with or without a column time;
\* and the boundary set built from it is the set of the cells its
\* identifiers name.
C12_BoundaryNeedsIdentifierOnly ==
    (pc # "new" /\ BoundaryIdentifiersOnly) =>
        /\ boundary_data # None
        /\ pc \notin {"new", "loaded", "sized", "coords", "failed"} =>
              boundary_coord =
                  {ExpectedCell(boundary_file.rows[k].MapIndex) :
                      k \in DOMAIN boundary_file.rows}

\* C13: when the boundary sheet has no rows, every cardinal link status
\* written for a tile is "free edge" and every neighbour filename written
\* for a tile is "none"; after the diagonal step that is all four link
\* statuses and all eight neighbour filenames of every tile.
C13_EmptyBoundary ==
    (metadata_data # None /\ boundary_file.exists /\ boundary_file.rows = <<>>) =>
        /\ \A f \in LinkFields \cap DOMAIN metadata_data :
              \A i \in Tiles : metadata_data[f][i] = FreeEdge
        /\ \A f \in NeighbourFields \cap DOMAIN metadata_data :
              \A i \in Tiles : metadata_data[f][i] = NoName
        /\ Has("filename_ES") =>
              LinkFields \cup NeighbourFields \subseteq DOMAIN metadata_data

\* two tiles whose cells touch, resolved against an empty boundary sheet
C13_Witness ==
    /\ pc = "diagonal"
    /\ boundary_file.exists
    /\ boundary_file.rows = <<>>
    /\ boundary_coord = {}
    /\ TargetIdentifiers = <<Id_12_51, Id_13_51>>
    /\ metadata_data["Link_N"] = <<FreeEdge, FreeEdge>>
    /\ metadata_data["filename_S"] = <<NoName, NoName>>
    /\ metadata_data["filename_WN"] = <<NoName, NoName>>

\* the identifiers of the boundary sheet, as a set
BoundaryIdentifierSet ==
    {boundary_file.rows[k].MapIndex : k \in DOMAIN boundary_file.rows}

\* the boundary set built from the boundary sheet with row k once more
RebuiltWithRowRepeated(k) ==
    LET rows == Append(boundary_file.rows, boundary_file.rows[k])
    IN  get_boundary_coordinates(
            [row_number |-> [i \in DOMAIN rows |-> RowField(rows[i].MapIndex)],
             column_number |->
                 [i \in DOMAIN rows |-> ColumnField(rows[i].MapIndex)]])

\* C14: when _get_boundary_coordinates has returned, and after each of the
\* two adjacency steps that read its result, the boundary set is
\* the set of cells named by the distinct identifiers of the boundary
\* sheet, however often a row occurs; building the set again from the
\* loaded boundary data gives the same set; and building it from the sheet
\* with any one row repeated gives the same set, hence the same link
\* statuses and neighbour filenames for every tile.
C14_BoundaryIndexIdempotent ==
    pc \in {"boundary", "cardinal", "diagonal"} =>
        /\ boundary_coord = {ExpectedCell(id) : id \in BoundaryIdentifierSet}
        /\ Cardinality(boundary_coord) = Cardinality(BoundaryIdentifierSet)
        /\ get_boundary_coordinates(boundary_data) = boundary_coord
        /\ \A k \in DOMAIN boundary_file.rows :
              LET again == RebuiltWithRowRepeated(k)
              IN  /\ again = boundary_coord
                  /\ pc = "diagonal" =>
                        \A d \in Range(directions) :
                            /\ link_list(metadata_data, d, again) =
                                  metadata_data["Link_" \o d.name]
                            /\ filename_list(metadata_data, d, again) =
                                  metadata_data["filename_" \o d.name]
                  /\ pc = "diagonal" =>
                        \A d \in Range(diagonals) :
                            filename_list(metadata_data, d, again) =
                                metadata_data["filename_" \o d.name]

\* a boundary sheet whose two rows are the same, north of the one tile
C14_Witness ==
    /\ pc = "diagonal"
    /\ boundary_file.exists
    /\ Len(boundary_file.rows) = 2
    /\ BoundaryIdentifierSet = {Id_13_51}
    /\ boundary_coord = {<<13, 51>>}
    /\ TargetIdentifiers = <<Id_12_51>>
    /\ metadata_data["Link_N"] = <<Connected>>

\* the offset of each of the 8 directions, and the direction opposite to it
AllOffsets == CardinalOffsets @@ DiagonalOffsets

Opposite ==
    [N |-> "S", S |-> "N", E |-> "W", W |-> "E",
     WN |-> "ES", ES |-> "WN", EN |-> "WS", WS |-> "EN"]

\* C15: when both adjacency steps have run, for any two tiles A and B whose
\* cells are both in the boundary set, with B's cell at the offset of
\* direction d from A's: A's filename_d names B's cell and B's filename in
\* the opposite direction names A's cell, and when d is cardinal both link
\* statuses are "connected"; and for every tile and cardinal direction the
\* link status is "connected" exactly when the neighbour filename is not
\* "none".
C15_OppositeSymmetry ==
    pc = "diagonal" =>
        /\ \A i \in Tiles, j \in Tiles, d \in DOMAIN AllOffsets :
              (/\ TileCell(i) \in boundary_coord
               /\ TileCell(j) \in boundary_coord
               /\ TileCell(j) = Neighbour(i, AllOffsets[d])) =>
                  /\ metadata_data["filename_" \o d][i] =
                        ExpectedName(TileCell(j))
                  /\ metadata_data["filename_" \o Opposite[d]][j] =
                        ExpectedName(TileCell(i))
                  /\ d \in DOMAIN CardinalOffsets =>
                        /\ metadata_data["Link_" \o d][i] = Connected
                        /\ metadata_data["Link_" \o Opposite[d]][j] = Connected
        /\ \A i \in Tiles, d \in DOMAIN CardinalOffsets :
              metadata_data["Link_" \o d][i] = Connected
                  <=> metadata_data["filename_" \o d][i] # NoName

\* tile (13,51) and tile (12,52), south-east of it, both in the boundary set
C15_Witness ==
    /\ pc = "diagonal"
    /\ TargetIdentifiers = <<Id_13_51, Id_Slash>>
    /\ boundary_coord = {<<13, 51>>, <<12, 52>>}
    /\ metadata_data["filename_ES"][1] =
          <<"1", "2", ".", "0", "-", "5", "2", ".", "0">>
    /\ metadata_data["filename_WN"][2] =
          <<"1", "3", ".", "0", "-", "5", "1", ".", "0">>
    /\ metadata_data["Link_N"] = <<FreeEdge, FreeEdge>>

\* tile (12,51) and tile (13,51), north of it, both in the boundary set
C15_WitnessCardinal ==
    /\ pc = "diagonal"
    /\ TargetIdentifiers = <<Id_12_51, Id_13_51>>
    /\ boundary_coord = {<<12, 51>>, <<13, 51>>}
    /\ metadata_data["Link_N"] = <<Connected, FreeEdge>>
    /\ metadata_data["Link_S"] = <<FreeEdge, Connected>>

\* the number of tile files whose write has returned, and whether one raised
Written ==
    Cardinality({k \in DOMAIN trace :
                    trace[k] = <<"_generate_single_file", "returned">>})

WriteFailed ==
    \E k \in DOMAIN trace : trace[k] = <<"_generate_single_file", "raised">>

\* the output path of tile i, and whether the directory holds the file
\* written for tile i: at that path, with the tile's identifier in cell C8
\* and its "file:" name in cell A1
TilePath(i) == OutputPath(metadata_data["file_name"][i], output_format)

HoldsTile(i) ==
    /\ TilePath(i) \in DOMAIN files
    /\ {"A1", "C8"} \subseteq DOMAIN files[TilePath(i)]
    /\ files[TilePath(i)]["C8"] = metadata_data["file_name"][i]
    /\ files[TilePath(i)]["A1"] = <<"file:">> \o metadata_data["file_name"][i]

\* that the batch is written in index order: the writes start after the
\* validator has returned, tile idx is the next one to write when idx - 1
\* tiles are written, and the directory holds no file written for a tile
\* that is still to come
InIndexOrder ==
    /\ \E v \in DOMAIN trace :
          /\ trace[v] = <<"_validate_data_consistency", "returned">>
          /\ \A k \in Calls("_generate_single_file") : k > v
    /\ idx = Written + 1
    /\ \A i \in Tiles : i > Written => ~HoldsTile(i)

\* that a failed write has stopped the batch: the exception has left the
\* run, and it is the last call of the run
BatchStopped ==
    /\ pc = "failed"
    /\ error.type = "OSError"
    /\ trace[Len(trace)] = <<"_generate_single_file", "raised">>
    /\ Cardinality({k \in Calls("_generate_single_file") :
                       trace[k][2] = "raised"}) = 1

\* C16: once the output directory is made, the tile files are written in
\* index order; and when the write of tile k has failed, the batch has
\* stopped with the exception, no file of a tile after k is in the
\* directory, the file written for every tile before k is still in the
\* directory, and so is the copy of the template for tile k when the
\* failure came after the copy.
C16_OrderedNoRollback ==
    dir_made =>
        /\ InIndexOrder
        /\ WriteFailed =>
              /\ BatchStopped
              /\ \A i \in Tiles : i < idx => HoldsTile(i)
              /\ error.msg = "write failed" =>
                    /\ TilePath(idx) \in DOMAIN files
                    /\ files[TilePath(idx)] = Template

\* the same for the batches whose output paths are pairwise distinct
C16_WithDistinctPaths ==
    (dir_made /\ \A i, j \in Tiles : i # j => TilePath(i) # TilePath(j)) =>
        C16_OrderedNoRollback

\* a batch of two tiles with distinct paths whose second write fails after
\* the copy of the template
C16_DistinctPathsWitness ==
    /\ pc = "failed"
    /\ TargetIdentifiers = <<Id_12_51, Id_13_51>>
    /\ idx = 2
    /\ error.msg = "write failed"
    /\ HoldsTile(1)
    /\ files[TilePath(2)] = Template

====
